---- MODULE Spec2Model ----
(***************************************************************************)
(* claudefather: the per-task retry/validation state machine of            *)
(* AISupervisor (run, processTask), ClaudeRunner.run, OutputValidator,     *)
(* StateManager, the ConcurrencyManager semaphore and WorktreeManager.     *)
(*                                                                         *)
(* Strings whose characters the code inspects (commit sha, branch name)    *)
(* are sequences of one-character strings.                                 *)
(***************************************************************************)
EXTENDS Integers, Sequences, FiniteSets, TLC

(***************************************************************************)
(* Bounds of the model                                                     *)
(***************************************************************************)
\* largest attemptNumber the Worker writes into a state file
MaxWrittenAttempt == 3
\* the Worker invocations of one processTask call are counted up to this
MaxCalls == 4
\* number of blocker statuses the Worker uses, in the order of isBlocker's list
MaxWorkerBlockers == 2
\* number of callers of ConcurrencyManager.acquire()
NumCallers == 4
\* largest constructor argument of ConcurrencyManager
MaxConcurrencyArg == 3
\* the longest --parallel value tried
MaxArgLen == 3
\* the longest commit id and branch name handed to validateGitStatus
MaxShaLen == 41
MaxBranchLen == 2

(***************************************************************************)
(* Program constants                                                       *)
(***************************************************************************)
maxAttempts == 3

TaskList == <<"A", "B">>
Tasks == {TaskList[i] : i \in 1..Len(TaskList)}

\* the list isBlocker tests membership in
BlockerList ==
  <<"HUMAN_REVIEW_REQUIRED", "TESTS_FAILING_STUCK", "BUILD_FAILING_STUCK",
    "LINT_ERRORS_STUCK", "MISSING_INFORMATION", "EXTERNAL_DEPENDENCY_BLOCKED",
    "MERGE_CONFLICT_DETECTED">>

BlockerStatuses == {BlockerList[i] : i \in 1..Len(BlockerList)}

TaskStatus ==
  {"VERIFIED_COMPLETE", "TASK_COMPLETE", "NEEDS_RETRY"} \cup BlockerStatuses

(***************************************************************************)
(* OutputValidator                                                         *)
(***************************************************************************)
HexChars ==
  {"0", "1", "2", "3", "4", "5", "6", "7", "8", "9",
   "a", "b", "c", "d", "e", "f"}

BranchChars ==
  {"a", "b", "c", "d", "e", "f", "g", "h", "i", "j", "k", "l", "m",
   "n", "o", "p", "q", "r", "s", "t", "u", "v", "w", "x", "y", "z",
   "A", "B", "C", "D", "E", "F", "G", "H", "I", "J", "K", "L", "M",
   "N", "O", "P", "Q", "R", "S", "T", "U", "V", "W", "X", "Y", "Z",
   "0", "1", "2", "3", "4", "5", "6", "7", "8", "9",
   "_", "-", "/", "."}

looksLikeCommitShaAnyCase(sha) ==
  /\ Len(sha) >= 7
  /\ Len(sha) <= 40
  /\ \A i \in 1..Len(sha) :
       sha[i] \in HexChars \cup {"A", "B", "C", "D", "E", "F"}

\* /^[0-9a-f]{7,40}$/.test(sha)
looksLikeCommitSha(sha) ==
  /\ Len(sha) >= 7
  /\ Len(sha) <= 40
  /\ \A i \in 1..Len(sha) : sha[i] \in HexChars

\* /^[a-zA-Z0-9_\-/.]+$/.test(branch)
branchLooksValid(branch) ==
  /\ Len(branch) >= 1
  /\ \A i \in 1..Len(branch) : branch[i] \in BranchChars

ShaIssue(sha) ==
  [type |-> "git_inconsistency",
   message |-> <<"Commit SHA does not look like a valid git commit hash", sha>>]

BranchIssue(branch) ==
  [type |-> "git_inconsistency",
   message |-> <<"Branch name contains invalid characters", branch>>]

UncommittedIssue ==
  [type |-> "git_inconsistency",
   message |-> <<"Uncommitted changes reported but task claims to be complete">>]

validateGitStatusNoUncommittedCheck(git) ==
  (IF ~looksLikeCommitSha(git.lastCommitSha)
     THEN <<ShaIssue(git.lastCommitSha)>> ELSE <<>>)
  \o (IF ~branchLooksValid(git.branch)
        THEN <<BranchIssue(git.branch)>> ELSE <<>>)

\* the three checks push their issue in this order
validateGitStatus(git) ==
  (IF ~looksLikeCommitSha(git.lastCommitSha)
     THEN <<ShaIssue(git.lastCommitSha)>> ELSE <<>>)
  \o (IF ~branchLooksValid(git.branch)
        THEN <<BranchIssue(git.branch)>> ELSE <<>>)
  \o (IF git.uncommittedChanges /\ Len(git.lastCommitSha) > 0
        THEN <<UncommittedIssue>> ELSE <<>>)

\* OutputValidator.validate as processTask calls it: validate(state.gitStatus)
validate(git) ==
  LET issues == validateGitStatus(git)
  IN  [valid |-> Len(issues) = 0, issues |-> issues]

NoValidation == [none |-> TRUE]

(***************************************************************************)
(* TaskState records                                                       *)
(***************************************************************************)
deadbee == <<"d", "e", "a", "d", "b", "e", "e">>
featureA == <<"f", "e", "a", "t", "/", "A">>

\* consistent git status: no issue
GitClean ==
  [branch |-> featureA, uncommittedChanges |-> FALSE, lastCommitSha |-> deadbee]
\* uncommitted changes together with a commit id: one issue
GitDirty ==
  [branch |-> featureA, uncommittedChanges |-> TRUE, lastCommitSha |-> deadbee]
\* bad sha, bad branch and uncommitted changes: three issues
GitBad ==
  [branch |-> <<"a", " ", "b">>, uncommittedChanges |-> TRUE,
   lastCommitSha |-> <<"x", "y", "z">>]
\* the default processTask fills in when there is no previous state
GitDefault ==
  [branch |-> <<>>, uncommittedChanges |-> TRUE, lastCommitSha |-> <<>>]

WorkerGitStatuses == {GitClean, GitDirty, GitBad}

NoState == [absent |-> TRUE]
\* a state file that is not valid JSON or fails TaskStateSchema (an empty
\* file is one)
Malformed == [malformed |-> TRUE]
\* what loadState's caller sees when loadState throws
LoadError == [threw |-> TRUE]
NoFeedback == [none |-> TRUE]

\* the statuses the Worker writes: isBlocker treats every blocker status alike
WorkerStatuses ==
  {"VERIFIED_COMPLETE", "TASK_COMPLETE", "NEEDS_RETRY"}
  \cup {BlockerList[i] :
          i \in {j \in 1..Len(BlockerList) : j <= MaxWorkerBlockers}}

\* the state files a Worker may write for task t: the taskId field agrees
\* with the file name
WorkerStates(t) ==
  [taskId : {t},
   status : WorkerStatuses,
   attemptNumber : 1..MaxWrittenAttempt,
   gitStatus : WorkerGitStatuses,
   blockerContext : {"worker"},
   startedAt : {"t0"},
   filesChanged : {<<"f">>},
   summary : {"done"},
   feedback : {NoFeedback}]

isBlockerMissingOne(status) ==
  status \in BlockerStatuses \ {"TESTS_FAILING_STUCK"}

isBlocker(status) == status \in BlockerStatuses

(***************************************************************************)
(* StateManager: one record per task id                                    *)
(***************************************************************************)
loadStateSwallowsErrors(st, taskId) ==
  IF st[taskId] = Malformed THEN NoState ELSE st[taskId]

\* null on ENOENT, the parsed record, or an error for a malformed file
loadState(st, taskId) ==
  IF st[taskId] = Malformed THEN LoadError ELSE st[taskId]

saveState(st, s) == [st EXCEPT ![s.taskId] = s]

\* an existing file is overwritten with the empty string; ENOENT is ignored
resetTask(st, taskId) ==
  IF st[taskId] = NoState THEN st ELSE [st EXCEPT ![taskId] = Malformed]

\* a usable TaskState: neither null nor a thrown error
IsState(s) == s # NoState /\ s # LoadError /\ s # Malformed

getStatusNoBlockedBucket(st) ==
  IF \E t \in Tasks : loadState(st, t) = LoadError
    THEN LoadError
    ELSE [t \in Tasks |->
            IF loadState(st, t) = NoState THEN "pending"
            ELSE IF loadState(st, t).status = "VERIFIED_COMPLETE"
              THEN "completed"
            ELSE "inProgress"]

\* AISupervisor.getStatus: the bucket of every task, or the error of the
\* first loadState that throws
getStatus(st) ==
  IF \E t \in Tasks : loadState(st, t) = LoadError
    THEN LoadError
    ELSE [t \in Tasks |->
            IF loadState(st, t) = NoState THEN "pending"
            ELSE IF loadState(st, t).status = "VERIFIED_COMPLETE"
              THEN "completed"
            ELSE IF loadState(st, t).status \in BlockerStatuses
              THEN "blocked"
            ELSE "inProgress"]

(***************************************************************************)
(* State                                                                   *)
(***************************************************************************)
VARIABLES
  store,          \* .claudefather/state/{task-id}.json, per task id
  pc,             \* position of the supervisor process
  idx,            \* position of AISupervisor.run in the task list (0: no run)
  state,          \* processTask: let state
  lastValidation, \* processTask: let lastValidation
  attemptNum,     \* processTask: const attemptNum of the current iteration
  calls,          \* ClaudeRunner.run calls made by the current processTask
  wrote,          \* the Worker wrote a state file during the run call in progress
  outcome,        \* how the last processTask call returned
  fresh,          \* the current processTask call found no stored state
  activeCount,    \* ConcurrencyManager.activeCount
  maxConcurrency, \* ConcurrencyManager.maxConcurrency
  queue,          \* ConcurrencyManager.queue (resolvers, by caller)
  cpc,            \* position of each caller of acquire()
  liveWorkers,    \* tasks whose Worker query is still running
  worktrees,      \* task ids whose worktree path exists
  branches,       \* task ids whose branch {prefix}/{task-id} exists
  wpc,            \* position of each task's attempt inside its slot
  lastCall,       \* the last WorktreeManager call and how it ended
  fnResult,       \* how the function passed to run() settled, per caller
  runResult,      \* how each caller's last run() call settled
  pending,        \* the record a saveState in progress has yet to write
  observed,       \* what the last concurrent loadState returned
  cli,            \* the start command: its --parallel value and its outcome
  prompt,         \* the prompt of the Worker invocation in progress
  gitArg,         \* the GitStatus handed to validateGitStatus
  gitIssues,      \* the issues validateGitStatus returned for gitArg
  wtState         \* per worktree: its .claudefather/state files, per task id

svars == <<store, pc, idx, state, lastValidation, attemptNum, calls, wrote,
           outcome, fresh>>
cvars == <<activeCount, maxConcurrency, queue, cpc>>
wvars == <<liveWorkers, worktrees, branches, wpc, lastCall>>
yvars == <<fnResult, runResult, pending, observed, cli, gitArg, gitIssues,
           wtState>>
xvars == <<fnResult, runResult, pending, observed, cli, prompt, gitArg,
           gitIssues, wtState>>
vars == <<store, pc, idx, state, lastValidation, attemptNum, calls, wrote,
          outcome, fresh, activeCount, maxConcurrency, queue, cpc,
          liveWorkers, worktrees, branches, wpc, lastCall, fnResult,
          runResult, pending, observed, cli, prompt, gitArg, gitIssues,
          wtState>>

Callers == 1..NumCallers

\* the callers of the parallel run: one per task of the queue
ParCallers == 1..Len(TaskList)

\* the three directories syncFromWorktree copies, in its order
SyncDirs == <<"tasks", "state", "logs">>
Dirs == {SyncDirs[i] : i \in 1..Len(SyncDirs)}

NoCall ==
  [op |-> "none", taskId |-> "", threw |-> FALSE, warned |-> FALSE,
   present |-> {}, failing |-> {}, copied |-> {}]

\* the task processTask is working on
task == TaskList[idx]

InitSupervisor ==
  /\ store = [t \in Tasks |-> NoState]
  /\ pc = "idle"
  /\ idx = 0
  /\ state = NoState
  /\ lastValidation = NoValidation
  /\ attemptNum = 0
  /\ calls = 0
  /\ wrote = FALSE
  /\ outcome = "none"
  /\ fresh = FALSE

\* new ConcurrencyManager(n): maxConcurrency = Math.max(1, n)
InitConcurrency(n) ==
  /\ activeCount = 0
  /\ maxConcurrency = (IF n > 1 THEN n ELSE 1)
  /\ queue = <<>>
  /\ cpc = [c \in Callers |-> "idle"]

\* no Worker running, no worktree, no task branch
InitWorktrees ==
  /\ liveWorkers = {}
  /\ worktrees = {}
  /\ branches = {}
  /\ wpc = [c \in ParCallers |-> "start"]
  /\ lastCall = NoCall

\* no Worker invocation is in progress
NoPrompt == [none |-> TRUE]

\* PromptBuilder.buildRetryContext: the header of the previous attempt, the
\* numbered feedback issues when there are any, the numbered validation
\* issues when there are any, and the closing request
buildRetryContext(previousState, validation) ==
  [attempt |-> previousState.attemptNumber,
   status |-> previousState.status,
   issuesFound |->
     (IF previousState.feedback # NoFeedback
        THEN previousState.feedback.issues ELSE <<>>),
   validationIssues |->
     (IF validation # NoValidation THEN validation.issues ELSE <<>>)]

\* PromptBuilder.buildPrompt: the system prompt, the task assignment and the
\* task description, then the retry context if there is a previous state
buildPrompt(t, previousState, validation) ==
  [taskId |-> t,
   description |-> t,
   retry |-> (IF previousState # NoState
                THEN <<buildRetryContext(previousState, validation)>>
                ELSE <<>>)]

\* a loadState that has not run yet
\* no argument handed to validateGitStatus, no result yet
NoGit == [none |-> TRUE]
NotValidated == <<[type |-> "none", message |-> <<"not validated">>]>>
\* validateGitStatus has returned its issues
Validated(issues) == Len(issues) = 0 \/ issues[1].type # "none"

\* a worktree without state files
NoStateDir == [t \in Tasks |-> NoState]

NotRead == [unread |-> TRUE]

\* the start command has not been given
NoCommand == [arg |-> <<>>, outcome |-> "none", parallelCount |-> 0]

\* no run() call has settled, no saveState is under way, no command given
InitExtras ==
  /\ fnResult = [c \in Callers |-> "none"]
  /\ runResult = [c \in Callers |-> "none"]
  /\ pending = NoState
  /\ observed = NotRead
  /\ cli = NoCommand
  /\ prompt = NoPrompt

\* validateGitStatus has not been called
InitValidator ==
  /\ gitArg = NoGit
  /\ gitIssues = NotValidated

\* no worktree holds a .claudefather/state directory
InitWorktreeFiles == wtState = [t \in Tasks |-> NoStateDir]

Init ==
  /\ InitSupervisor
  /\ InitConcurrency(3)
  /\ InitWorktrees
  /\ InitExtras
  /\ InitValidator
  /\ InitWorktreeFiles

(***************************************************************************)
(* AISupervisor.run                                                        *)
(***************************************************************************)
\* run(): the task list is loaded and the for loop reaches its first task
StartRun ==
  /\ pc = "idle"
  /\ Len(TaskList) > 0
  /\ pc' = "task"
  /\ idx' = 1
  /\ UNCHANGED <<store, state, lastValidation, attemptNum, calls, wrote,
                 outcome, fresh>>
  /\ UNCHANGED cvars
  /\ UNCHANGED xvars
  /\ UNCHANGED wvars

NextTaskStopsAtBlocker ==
  /\ pc = "ret"
  /\ IF idx < Len(TaskList)
          /\ outcome \notin {"blocked", "blocker_reported", "ceiling"}
       THEN pc' = "task" /\ idx' = idx + 1
       ELSE pc' = "idle" /\ idx' = 0
  /\ UNCHANGED <<store, state, lastValidation, attemptNum, calls, wrote,
                 outcome, fresh>>
  /\ UNCHANGED cvars
  /\ UNCHANGED xvars
  /\ UNCHANGED wvars

\* processTask returned: the for loop takes the next task, or run() ends
NextTask ==
  /\ pc = "ret"
  /\ IF idx < Len(TaskList)
       THEN pc' = "task" /\ idx' = idx + 1
       ELSE pc' = "idle" /\ idx' = 0
  /\ UNCHANGED <<store, state, lastValidation, attemptNum, calls, wrote,
                 outcome, fresh>>
  /\ UNCHANGED cvars
  /\ UNCHANGED xvars
  /\ UNCHANGED wvars

(***************************************************************************)
(* AISupervisor.processTask                                                *)
(***************************************************************************)
AlreadyCompleteNever(s) == FALSE

\* if (state && state.status === 'VERIFIED_COMPLETE')
AlreadyComplete(s) == IsState(s) /\ s.status = "VERIFIED_COMPLETE"

\* if (state && this.isBlocker(state.status))
AlreadyBlocked(s) == IsState(s) /\ isBlocker(s.status)

\* while (!state || (status !== 'VERIFIED_COMPLETE' && !isBlocker(status)))
LoopCondition(s) ==
  \/ s = NoState
  \/ (s.status # "VERIFIED_COMPLETE" /\ ~isBlocker(s.status))

NextAttemptNumSame(s) == IF s = NoState THEN 1 ELSE s.attemptNumber

\* (state?.attemptNumber ?? 0) + 1
NextAttemptNum(s) == (IF s = NoState THEN 0 ELSE s.attemptNumber) + 1

\* x || fallback for strings: the empty string is falsy
OrElse(x, fallback) == IF x = "" THEN fallback ELSE x

\* the state synthesized when attemptNum > maxAttempts: { ...state, status,
\* blockerContext, attemptNumber, startedAt: state.startedAt || now,
\* filesChanged: state.filesChanged || [], summary: state.summary || '...',
\* gitStatus: state.gitStatus || {...} }; arrays and objects are truthy
CeilingState(s, n) ==
  [s EXCEPT !.status = "HUMAN_REVIEW_REQUIRED",
            !.blockerContext = "Max retries exceeded",
            !.attemptNumber = n,
            !.startedAt = OrElse(s.startedAt, "now"),
            !.summary = OrElse(s.summary, "Task failed after max retries")]

\* the state synthesized in the catch block
ErrorState(t, s, n) ==
  [taskId |-> t,
   status |-> "HUMAN_REVIEW_REQUIRED",
   blockerContext |-> "Error during execution",
   attemptNumber |-> n,
   startedAt |-> (IF s = NoState THEN "now" ELSE OrElse(s.startedAt, "now")),
   filesChanged |-> (IF s = NoState THEN <<>> ELSE s.filesChanged),
   summary |-> (IF s = NoState THEN "Task failed"
                ELSE OrElse(s.summary, "Task failed")),
   gitStatus |-> (IF s = NoState THEN GitDefault ELSE s.gitStatus),
   feedback |-> NoFeedback]

\* lastValidation.issues.map((i) => i.message)
Messages(issues) == [i \in 1..Len(issues) |-> issues[i].message]

DowngradeKeepsStatus(s, v) ==
  [s EXCEPT !.feedback =
     [issues |-> Messages(v.issues),
      instruction |-> "Please fix the following issues and try again"]]

\* { ...state, status: 'NEEDS_RETRY', feedback: { issues, instruction } }
Downgrade(s, v) ==
  [s EXCEPT !.status = "NEEDS_RETRY",
            !.feedback =
     [issues |-> Messages(v.issues),
      instruction |-> "Please fix the following issues and try again"]]

\* processTask up to the while loop: load the stored state, skip or stop.
\* loadState is called outside the try block: when it throws, processTask
\* and run() reject and the command exits.
ProcessTaskStart ==
  /\ pc = "task"
  /\ LET s == loadState(store, task)
     IN  IF s = LoadError
           THEN /\ state' = NoState
                /\ pc' = "idle"
                /\ idx' = 0
                /\ outcome' = "threw"
                /\ fresh' = FALSE
           ELSE /\ state' = s
                /\ IF AlreadyComplete(s)
                     THEN pc' = "ret" /\ outcome' = "already_complete"
                     ELSE IF AlreadyBlocked(s)
                            THEN pc' = "ret" /\ outcome' = "blocked"
                            ELSE pc' = "loop" /\ outcome' = "none"
                /\ fresh' = (s = NoState)
                /\ UNCHANGED idx
  /\ lastValidation' = NoValidation
  /\ calls' = 0
  /\ attemptNum' = 0
  /\ wrote' = FALSE
  /\ UNCHANGED store
  /\ UNCHANGED cvars
  /\ UNCHANGED xvars
  /\ UNCHANGED wvars

\* top of the while loop down to the call of claudeRunner.run
LoopTop ==
  /\ pc = "loop"
  /\ IF ~LoopCondition(state)
       THEN /\ pc' = "ret"
            /\ outcome' = "loop_ended"
            /\ UNCHANGED <<store, state, attemptNum, calls, wrote>>
       ELSE LET n == NextAttemptNum(state)
            IN  /\ attemptNum' = n
                /\ IF n > maxAttempts
                     THEN /\ state' = CeilingState(state, n)
                          /\ store' = saveState(store, CeilingState(state, n))
                          /\ pc' = "ret"
                          /\ outcome' = "ceiling"
                          /\ UNCHANGED <<calls, wrote>>
                     ELSE /\ calls' = (IF calls < MaxCalls
                                         THEN calls + 1 ELSE calls)
                          /\ wrote' = FALSE
                          /\ pc' = "worker"
                          /\ UNCHANGED <<store, state, outcome>>
  /\ prompt' = (IF LoopCondition(state)
                    /\ NextAttemptNum(state) <= maxAttempts
                  THEN buildPrompt(task, state, lastValidation)
                  ELSE prompt)
  /\ UNCHANGED <<idx, lastValidation, fresh>>
  /\ UNCHANGED cvars
  /\ UNCHANGED yvars
  /\ UNCHANGED wvars

\* the Worker writes .claudefather/state/{task-id}.json while it runs
WorkerWrite ==
  /\ pc = "worker"
  /\ ~wrote
  /\ \E s \in WorkerStates(task) \cup {Malformed} :
       store' = [store EXCEPT ![task] = s]
  /\ wrote' = TRUE
  /\ UNCHANGED <<pc, idx, state, lastValidation, attemptNum, calls, outcome,
                 fresh>>
  /\ UNCHANGED cvars
  /\ UNCHANGED xvars
  /\ UNCHANGED wvars

\* ClaudeRunner.run settles: the query ends and the state file is loaded
\* (no file or a loadState error makes run throw), or the timeout fires, or
\* the query throws
RunSettles ==
  /\ pc = "worker"
  /\ \E kind \in {"complete", "timeout", "error"} :
       IF kind = "complete" /\ IsState(loadState(store, task))
         THEN /\ state' = loadState(store, task)
              /\ pc' = "validate"
         ELSE /\ pc' = "catch"
              /\ UNCHANGED state
  /\ wrote' = FALSE
  /\ prompt' = NoPrompt
  /\ UNCHANGED <<store, idx, lastValidation, attemptNum, calls, outcome,
                 fresh>>
  /\ UNCHANGED cvars
  /\ UNCHANGED yvars
  /\ UNCHANGED wvars

\* the rest of the try block: validate, then decide on the status
ValidateStep ==
  /\ pc = "validate"
  /\ LET v == validate(state.gitStatus)
     IN  /\ lastValidation' = v
         /\ IF ~v.valid
              THEN /\ state' = Downgrade(state, v)
                   /\ store' = saveState(store, Downgrade(state, v))
                   /\ pc' = "loop"
                   /\ UNCHANGED outcome
              ELSE IF state.status = "VERIFIED_COMPLETE"
                THEN /\ store' = saveState(store, state)
                     /\ pc' = "ret"
                     /\ outcome' = "verified"
                     /\ UNCHANGED state
                ELSE IF state.status = "TASK_COMPLETE"
                  THEN /\ state' = [state EXCEPT !.status = "NEEDS_RETRY"]
                       /\ pc' = "loop"
                       /\ UNCHANGED <<store, outcome>>
                  ELSE IF isBlocker(state.status)
                    THEN /\ store' = saveState(store, state)
                         /\ pc' = "ret"
                         /\ outcome' = "blocker_reported"
                         /\ UNCHANGED state
                    ELSE /\ pc' = "loop"
                         /\ UNCHANGED <<store, state, outcome>>
  /\ UNCHANGED <<idx, attemptNum, calls, wrote, fresh>>
  /\ UNCHANGED cvars
  /\ UNCHANGED xvars
  /\ UNCHANGED wvars

CatchStepRetries ==
  /\ pc = "catch"
  /\ IF attemptNum < maxAttempts
       THEN /\ state' = [ErrorState(task, state, attemptNum)
                           EXCEPT !.status = "NEEDS_RETRY"]
            /\ store' = saveState(store, [ErrorState(task, state, attemptNum)
                                            EXCEPT !.status = "NEEDS_RETRY"])
            /\ pc' = "loop"
            /\ UNCHANGED outcome
       ELSE /\ state' = ErrorState(task, state, attemptNum)
            /\ store' = saveState(store, ErrorState(task, state, attemptNum))
            /\ pc' = "ret"
            /\ outcome' = "error"
  /\ UNCHANGED <<idx, lastValidation, attemptNum, calls, wrote, fresh>>
  /\ UNCHANGED cvars
  /\ UNCHANGED xvars
  /\ UNCHANGED wvars

\* the catch block: synthesize the error state, persist it, return
CatchStep ==
  /\ pc = "catch"
  /\ state' = ErrorState(task, state, attemptNum)
  /\ store' = saveState(store, ErrorState(task, state, attemptNum))
  /\ pc' = "ret"
  /\ outcome' = "error"
  /\ UNCHANGED <<idx, lastValidation, attemptNum, calls, wrote, fresh>>
  /\ UNCHANGED cvars
  /\ UNCHANGED xvars
  /\ UNCHANGED wvars

(***************************************************************************)
(* Environment: the process is killed, the operator resets a task          *)
(***************************************************************************)
\* the supervisor process dies; nothing in memory survives, the files do
Crash ==
  /\ pc # "idle"
  /\ pc' = "idle"
  /\ idx' = 0
  /\ state' = NoState
  /\ lastValidation' = NoValidation
  /\ attemptNum' = 0
  /\ calls' = 0
  /\ wrote' = FALSE
  /\ outcome' = "none"
  /\ fresh' = FALSE
  /\ prompt' = NoPrompt
  /\ UNCHANGED store
  /\ UNCHANGED cvars
  /\ UNCHANGED yvars
  /\ UNCHANGED wvars

\* `claudefather reset <taskId>` between runs
Reset ==
  /\ pc = "idle"
  /\ \E t \in Tasks :
       /\ store[t] # NoState
       /\ store' = resetTask(store, t)
  /\ UNCHANGED <<pc, idx, state, lastValidation, attemptNum, calls, wrote,
                 outcome, fresh>>
  /\ UNCHANGED cvars
  /\ UNCHANGED xvars
  /\ UNCHANGED wvars

(***************************************************************************)
(* validateGitStatus on its own                                            *)
(***************************************************************************)
\* a string of n characters: `fill` everywhere but `odd` at position at
\* (at = 0: nowhere)
Filled(n, fill, odd, at) == [i \in 1..n |-> IF i = at THEN odd ELSE fill]

\* commit ids of every length up to MaxShaLen: lower-case hex throughout, or
\* with one upper-case hex digit, non-hex letter or blank at the front, in
\* the middle or at the end
ShaInputs ==
  UNION {{Filled(n, fill, odd, at) :
            fill \in {"a", "0", "f"}, odd \in {"A", "g", " "},
            at \in {0, 1, (n + 1) \div 2, n}} : n \in 0..MaxShaLen}

BranchInputChars == {"m", "Z", "7", "/", " "}

RECURSIVE Strings(_, _)
\* the strings over chars of length up to n
Strings(chars, n) ==
  IF n = 0 THEN {<<>>}
  ELSE LET shorter == Strings(chars, n - 1)
       IN  shorter \cup {Append(w, ch) : w \in shorter, ch \in chars}

GitInputs ==
  [branch : Strings(BranchInputChars, MaxBranchLen),
   uncommittedChanges : BOOLEAN,
   lastCommitSha : ShaInputs]

\* OutputValidator.validateGitStatus(git) is called
ValidateGitStatusCall ==
  /\ ~Validated(gitIssues)
  /\ gitIssues' = validateGitStatus(gitArg)
  /\ UNCHANGED <<fnResult, runResult, pending, observed, cli, prompt, gitArg,
                 wtState>>
  /\ UNCHANGED svars
  /\ UNCHANGED cvars
  /\ UNCHANGED wvars

InitValidate ==
  /\ InitSupervisor
  /\ InitConcurrency(3)
  /\ InitWorktrees
  /\ InitExtras
  /\ InitWorktreeFiles
  /\ gitArg \in GitInputs
  /\ gitIssues = NotValidated

NextValidate == ValidateGitStatusCall

SpecValidate == InitValidate /\ [][NextValidate]_vars

(***************************************************************************)
(* ConcurrencyManager                                                      *)
(***************************************************************************)
AcquireBodyNoWait(c) ==
  /\ activeCount' = activeCount + 1
  /\ cpc' = [cpc EXCEPT ![c] = "holding"]
  /\ UNCHANGED <<queue, maxConcurrency>>

\* one pass of acquire() from the loop test on: queue up, or take the slot
AcquireBody(c) ==
  IF activeCount >= maxConcurrency
    THEN /\ queue' = Append(queue, c)
         /\ cpc' = [cpc EXCEPT ![c] = "waiting"]
         /\ UNCHANGED <<activeCount, maxConcurrency>>
    ELSE /\ activeCount' = activeCount + 1
         /\ cpc' = [cpc EXCEPT ![c] = "holding"]
         /\ UNCHANGED <<queue, maxConcurrency>>

\* a caller calls acquire()
Acquire(c) ==
  /\ cpc[c] = "idle"
  /\ AcquireBody(c)
  /\ UNCHANGED svars
  /\ UNCHANGED xvars
  /\ UNCHANGED wvars

ResumeNoRecheck(c) ==
  /\ cpc[c] = "woken"
  /\ activeCount' = activeCount + 1
  /\ cpc' = [cpc EXCEPT ![c] = "holding"]
  /\ UNCHANGED <<queue, maxConcurrency>>
  /\ UNCHANGED svars
  /\ UNCHANGED xvars
  /\ UNCHANGED wvars

\* a woken waiter's continuation runs: the while loop tests again
Resume(c) ==
  /\ cpc[c] = "woken"
  /\ AcquireBody(c)
  /\ UNCHANGED svars
  /\ UNCHANGED xvars
  /\ UNCHANGED wvars

ReleaseBodyWakesLast(c) ==
  /\ cpc[c] = "holding"
  /\ activeCount' = activeCount - 1
  /\ IF Len(queue) > 0
       THEN /\ queue' = SubSeq(queue, 1, Len(queue) - 1)
            /\ cpc' = [cpc EXCEPT ![c] = "idle",
                                  ![queue[Len(queue)]] = "woken"]
       ELSE /\ queue' = queue
            /\ cpc' = [cpc EXCEPT ![c] = "idle"]
  /\ UNCHANGED maxConcurrency

\* the release closure: give the slot back, wake the first waiter
ReleaseBody(c) ==
  /\ cpc[c] = "holding"
  /\ activeCount' = activeCount - 1
  /\ IF Len(queue) > 0
       THEN /\ queue' = Tail(queue)
            /\ cpc' = [cpc EXCEPT ![c] = "idle", ![Head(queue)] = "woken"]
       ELSE /\ queue' = queue
            /\ cpc' = [cpc EXCEPT ![c] = "idle"]
  /\ UNCHANGED maxConcurrency

\* a holder calls its release function (once)
Release(c) ==
  /\ ReleaseBody(c)
  /\ UNCHANGED svars
  /\ UNCHANGED xvars
  /\ UNCHANGED wvars

ReleaseFnNoWake(c, after) ==
  /\ activeCount' = activeCount - 1
  /\ cpc' = [cpc EXCEPT ![c] = after]
  /\ UNCHANGED <<queue, maxConcurrency>>

\* the release closure, called by a caller that then moves to position
\* `after`: no test of whether this closure has been called before
ReleaseFn(c, after) ==
  /\ activeCount' = activeCount - 1
  /\ IF Len(queue) > 0
       THEN /\ queue' = Tail(queue)
            /\ cpc' = [cpc EXCEPT ![c] = after, ![Head(queue)] = "woken"]
       ELSE /\ queue' = queue
            /\ cpc' = [cpc EXCEPT ![c] = after]
  /\ UNCHANGED maxConcurrency

\* a holder calls its release function and never calls acquire() again
ReleaseOnce(c) ==
  /\ cpc[c] = "holding"
  /\ ReleaseFn(c, "done")
  /\ UNCHANGED svars
  /\ UNCHANGED xvars
  /\ UNCHANGED wvars

\* a holder calls its release function and keeps the closure
ReleaseFirst(c) ==
  /\ cpc[c] = "holding"
  /\ ReleaseFn(c, "released")
  /\ UNCHANGED svars
  /\ UNCHANGED xvars
  /\ UNCHANGED wvars

\* the same release function is called a second time
ReleaseAgain(c) ==
  /\ cpc[c] = "released"
  /\ ReleaseFn(c, "done")
  /\ UNCHANGED svars
  /\ UNCHANGED xvars
  /\ UNCHANGED wvars

InitCM ==
  /\ InitSupervisor
  /\ \E n \in 0..MaxConcurrencyArg : InitConcurrency(n)
  /\ InitWorktrees
  /\ InitExtras
  /\ InitValidator
  /\ InitWorktreeFiles

NextCM ==
  \E c \in Callers :
    \/ Acquire(c)
    \/ Resume(c)
    \/ Release(c)

SpecCM == InitCM /\ [][NextCM]_vars

\* every caller calls acquire() at most once and releases once
NextCMOnce ==
  \E c \in Callers :
    \/ Acquire(c)
    \/ Resume(c)
    \/ ReleaseOnce(c)

\* a resolved waiter's continuation is run by the event loop; a holder
\* releases after acquiring
SpecCMOnce ==
  /\ InitCM
  /\ [][NextCMOnce]_vars
  /\ \A c \in Callers : WF_vars(Resume(c)) /\ WF_vars(ReleaseOnce(c))

\* callers may call their release function twice
NextCMRepeat ==
  \E c \in Callers :
    \/ Acquire(c)
    \/ Resume(c)
    \/ ReleaseFirst(c)
    \/ ReleaseAgain(c)

SpecCMRepeat == InitCM /\ [][NextCMRepeat]_vars

(***************************************************************************)
(* A Worker that names another task in the taskId field of its state file  *)
(***************************************************************************)
\* the states a Worker run for task t can write under another task's id
\* (TaskStateSchema only asks taskId to be a string)
ForeignWorkerStates(t) ==
  {[s EXCEPT !.taskId = u] : s \in WorkerStates(t), u \in Tasks \ {t}}

\* the Worker writes .claudefather/state/{task}.json with a foreign taskId
WorkerWriteForeign ==
  /\ pc = "worker"
  /\ ~wrote
  /\ \E s \in ForeignWorkerStates(task) : store' = [store EXCEPT ![task] = s]
  /\ wrote' = TRUE
  /\ UNCHANGED <<pc, idx, state, lastValidation, attemptNum, calls, outcome,
                 fresh>>
  /\ UNCHANGED cvars
  /\ UNCHANGED xvars
  /\ UNCHANGED wvars

NextTaskId ==
  \/ StartRun
  \/ NextTask
  \/ ProcessTaskStart
  \/ LoopTop
  \/ WorkerWrite
  \/ WorkerWriteForeign
  \/ RunSettles
  \/ ValidateStep
  \/ CatchStep

SpecTaskId == Init /\ [][NextTaskId]_vars

(***************************************************************************)
(* StateManager.saveState and loadState running in two processes (`start`  *)
(* and `status`): writeFile opens the file with flag 'w', which truncates  *)
(* it, and writes the content afterwards                                   *)
(***************************************************************************)
\* the records the supervisor saves in these runs
SavedStates(t) ==
  {s \in WorkerStates(t) : s.gitStatus = GitClean /\ s.attemptNumber = 1}

\* saveState(s): writeFile has opened (and so emptied) the state file
SaveStateOpens(t) ==
  /\ pending = NoState
  /\ \E s \in SavedStates(t) : pending' = s
  /\ store' = [store EXCEPT ![t] = Malformed]
  /\ UNCHANGED <<fnResult, runResult, observed, cli, prompt,
                 gitArg, gitIssues, wtState>>
  /\ UNCHANGED <<pc, idx, state, lastValidation, attemptNum, calls, wrote,
                 outcome, fresh>>
  /\ UNCHANGED cvars
  /\ UNCHANGED wvars

\* writeFile writes the content and saveState returns
SaveStateWrites ==
  /\ pending # NoState
  /\ store' = saveState(store, pending)
  /\ pending' = NoState
  /\ UNCHANGED <<fnResult, runResult, observed, cli, prompt,
                 gitArg, gitIssues, wtState>>
  /\ UNCHANGED <<pc, idx, state, lastValidation, attemptNum, calls, wrote,
                 outcome, fresh>>
  /\ UNCHANGED cvars
  /\ UNCHANGED wvars

\* another process calls loadState(t)
ConcurrentLoad(t) ==
  /\ observed' = loadState(store, t)
  /\ UNCHANGED <<fnResult, runResult, pending, cli, prompt,
                 gitArg, gitIssues, wtState>>
  /\ UNCHANGED svars
  /\ UNCHANGED cvars
  /\ UNCHANGED wvars

NextIO ==
  \/ \E t \in Tasks : SaveStateOpens(t)
  \/ SaveStateWrites
  \/ \E t \in Tasks : ConcurrentLoad(t)

SpecIO == Init /\ [][NextIO]_vars

(***************************************************************************)
(* The start command: --parallel <number>                                  *)
(***************************************************************************)
DigitChars == <<"0", "1", "2", "3", "4", "5", "6", "7", "8", "9">>
IsDigit(ch) == \E i \in 1..Len(DigitChars) : DigitChars[i] = ch
DigitValue(ch) == (CHOOSE i \in 1..Len(DigitChars) : DigitChars[i] = ch) - 1

\* the characters the --parallel values are made of
ArgChars == {"0", "1", "2", "-", "x"}
Args == UNION {[1..n -> ArgChars] : n \in 1..MaxArgLen}

\* the value of a string of decimal digits
RECURSIVE DigitsValue(_)
DigitsValue(ds) ==
  IF ds = <<>>
    THEN 0
    ELSE 10 * DigitsValue(SubSeq(ds, 1, Len(ds) - 1)) + DigitValue(ds[Len(ds)])

\* parseInt(str, 10): an optional sign, then the longest run of digits; NaN
\* when there is no digit
parseInt(str) ==
  LET neg == Len(str) > 0 /\ str[1] = "-"
      rest == IF neg THEN Tail(str) ELSE str
      n == CHOOSE k \in 0..Len(rest) :
             /\ \A i \in 1..k : IsDigit(rest[i])
             /\ (k < Len(rest) => ~IsDigit(rest[k + 1]))
      v == DigitsValue(SubSeq(rest, 1, n))
  IN  IF n = 0
        THEN [nan |-> TRUE, value |-> 0]
        ELSE [nan |-> FALSE, value |-> IF neg THEN 0 - v ELSE v]

\* parseInt(options.parallel, 10) || 1: NaN and 0 are falsy
parallelCount(arg) ==
  LET r == parseInt(arg)
  IN  IF r.nan \/ r.value = 0 THEN 1 ELSE r.value

\* the action of `start`: the value is checked, then the supervisor is
\* built (its ConcurrencyManager with Math.max(1, n)) and run
StartCommand ==
  /\ cli.outcome = "none"
  /\ LET n == parallelCount(cli.arg)
     IN  IF n < 1
           THEN /\ cli' = [cli EXCEPT !.parallelCount = n,
                                      !.outcome = "aborted"]
                /\ UNCHANGED maxConcurrency
           ELSE /\ cli' = [cli EXCEPT !.parallelCount = n, !.outcome = "run"]
                /\ maxConcurrency' = (IF n > 1 THEN n ELSE 1)
  /\ UNCHANGED <<activeCount, queue, cpc>>
  /\ UNCHANGED <<fnResult, runResult, pending, observed, prompt,
                 gitArg, gitIssues, wtState>>
  /\ UNCHANGED svars
  /\ UNCHANGED wvars

\* `claudefather start --parallel <arg>` is about to run
InitStart ==
  /\ InitSupervisor
  /\ InitConcurrency(1)
  /\ InitWorktrees
  /\ fnResult = [c \in Callers |-> "none"]
  /\ runResult = [c \in Callers |-> "none"]
  /\ pending = NoState
  /\ observed = NotRead
  /\ prompt = NoPrompt
  /\ InitValidator
  /\ InitWorktreeFiles
  /\ \E a \in Args : cli = [NoCommand EXCEPT !.arg = a]

NextStart == StartCommand

SpecStart == InitStart /\ [][NextStart]_vars

(***************************************************************************)
(* A Worker that also varies the summary and the filesChanged it reports   *)
(***************************************************************************)
\* TaskStateSchema: summary is any string, filesChanged any array of strings
DetailedWorkerStates(t) ==
  {[s EXCEPT !.summary = d[1], !.filesChanged = d[2]] :
     s \in {w \in WorkerStates(t) : w.gitStatus # GitBad},
     d \in {<<"", <<>> >>, <<"done", <<"f">> >>}}

\* the Worker writes .claudefather/state/{task}.json
WorkerWriteDetailed ==
  /\ pc = "worker"
  /\ ~wrote
  /\ \E s \in DetailedWorkerStates(task) :
       store' = [store EXCEPT ![task] = s]
  /\ wrote' = TRUE
  /\ UNCHANGED <<pc, idx, state, lastValidation, attemptNum, calls, outcome,
                 fresh>>
  /\ UNCHANGED cvars
  /\ UNCHANGED xvars
  /\ UNCHANGED wvars

NextDetailed ==
  \/ StartRun
  \/ NextTask
  \/ ProcessTaskStart
  \/ LoopTop
  \/ WorkerWriteDetailed
  \/ RunSettles
  \/ ValidateStep
  \/ CatchStep

SpecDetailed == Init /\ [][NextDetailed]_vars

(***************************************************************************)
(* ConcurrencyManager.run(fn): acquire, call fn, release in finally        *)
(***************************************************************************)
\* a caller calls run(fn): `await this.acquire()` runs up to its first wait
RunCall(c) ==
  /\ cpc[c] = "idle"
  /\ AcquireBody(c)
  /\ runResult' = [runResult EXCEPT ![c] = "none"]
  /\ UNCHANGED <<fnResult, pending, observed, cli, prompt,
                 gitArg, gitIssues, wtState>>
  /\ UNCHANGED svars
  /\ UNCHANGED wvars

\* the promise of fn() settles while the caller holds its slot
FnSettles(c) ==
  /\ cpc[c] = "holding"
  /\ fnResult[c] = "none"
  /\ \E r \in {"resolved", "rejected"} :
       fnResult' = [fnResult EXCEPT ![c] = r]
  /\ UNCHANGED <<runResult, pending, observed, cli, prompt,
                 gitArg, gitIssues, wtState>>
  /\ UNCHANGED svars
  /\ UNCHANGED cvars
  /\ UNCHANGED wvars

RunFinallyOnlyOnSuccess(c) ==
  /\ cpc[c] = "holding"
  /\ fnResult[c] # "none"
  /\ IF fnResult[c] = "resolved"
       THEN ReleaseBody(c)
       ELSE /\ cpc' = [cpc EXCEPT ![c] = "idle"]
            /\ UNCHANGED <<activeCount, queue, maxConcurrency>>
  /\ runResult' = [runResult EXCEPT ![c] = fnResult[c]]
  /\ fnResult' = [fnResult EXCEPT ![c] = "none"]
  /\ UNCHANGED <<pending, observed, cli, prompt,
                 gitArg, gitIssues, wtState>>
  /\ UNCHANGED svars
  /\ UNCHANGED wvars

\* run() resumes after `await fn()`: finally { release() }, then the value
\* is returned or the error rethrown
RunFinally(c) ==
  /\ cpc[c] = "holding"
  /\ fnResult[c] # "none"
  /\ ReleaseBody(c)
  /\ runResult' = [runResult EXCEPT ![c] = fnResult[c]]
  /\ fnResult' = [fnResult EXCEPT ![c] = "none"]
  /\ UNCHANGED <<pending, observed, cli, prompt,
                 gitArg, gitIssues, wtState>>
  /\ UNCHANGED svars
  /\ UNCHANGED wvars

NextRunFn ==
  \E c \in Callers :
    \/ RunCall(c)
    \/ Resume(c)
    \/ FnSettles(c)
    \/ RunFinally(c)

SpecRunFn == InitCM /\ [][NextRunFn]_vars

(***************************************************************************)
(* ClaudeRunner.run: the timeout                                           *)
(***************************************************************************)
\* the timeout promise rejects first: Promise.race settles and run() throws;
\* nothing interrupts the query, whose Worker goes on running
TimeoutFires ==
  /\ pc = "worker"
  /\ pc' = "catch"
  /\ wrote' = FALSE
  /\ liveWorkers' = liveWorkers \cup {task}
  /\ prompt' = NoPrompt
  /\ UNCHANGED <<store, idx, state, lastValidation, attemptNum, calls, outcome,
                 fresh>>
  /\ UNCHANGED cvars
  /\ UNCHANGED yvars
  /\ UNCHANGED <<worktrees, branches, wpc, lastCall>>

\* a Worker that outlived its run() call writes its state file and exits
LateWorkerWrite(t) ==
  /\ t \in liveWorkers
  /\ \E s \in WorkerStates(t) \cup {Malformed} :
       store' = [store EXCEPT ![t] = s]
  /\ liveWorkers' = liveWorkers \ {t}
  /\ UNCHANGED <<pc, idx, state, lastValidation, attemptNum, calls, wrote,
                 outcome, fresh>>
  /\ UNCHANGED cvars
  /\ UNCHANGED xvars
  /\ UNCHANGED <<worktrees, branches, wpc, lastCall>>

\* a Worker that outlived its run() call exits without another write
LateWorkerExits(t) ==
  /\ t \in liveWorkers
  /\ liveWorkers' = liveWorkers \ {t}
  /\ UNCHANGED svars
  /\ UNCHANGED xvars
  /\ UNCHANGED cvars
  /\ UNCHANGED <<worktrees, branches, wpc, lastCall>>

\* the runs in which every run() call ends by its timeout
NextLate ==
  \/ StartRun
  \/ NextTask
  \/ ProcessTaskStart
  \/ LoopTop
  \/ WorkerWrite
  \/ CatchStep
  \/ TimeoutFires
  \/ \E t \in Tasks : LateWorkerWrite(t)
  \/ \E t \in Tasks : LateWorkerExits(t)

SpecLate == Init /\ [][NextLate]_vars

\* the records a Worker that outlived its run() call writes: clean git
\* status, the attempt it was started for
LateWorkerStates(t) ==
  {s \in WorkerStates(t) : s.gitStatus = GitClean /\ s.attemptNumber = 1}

\* a Worker that outlived its run() call writes its state file and works on
LateWorkerWritesOn(t) ==
  /\ t \in liveWorkers
  /\ \E s \in LateWorkerStates(t) : store' = [store EXCEPT ![t] = s]
  /\ UNCHANGED <<pc, idx, state, lastValidation, attemptNum, calls, wrote,
                 outcome, fresh>>
  /\ UNCHANGED cvars
  /\ UNCHANGED xvars
  /\ UNCHANGED wvars

\* timed-out runs whose Worker goes on working, and later runs
NextOverlap ==
  \/ StartRun
  \/ NextTask
  \/ ProcessTaskStart
  \/ LoopTop
  \/ CatchStep
  \/ TimeoutFires
  \/ \E t \in Tasks : LateWorkerWritesOn(t)
  \/ \E t \in Tasks : LateWorkerExits(t)

SpecOverlap == Init /\ [][NextOverlap]_vars

(***************************************************************************)
(* WorktreeManager                                                         *)
(***************************************************************************)
\* git worktree add "<path>" -b "<branch>": git refuses an existing branch
\* name before it changes anything; it creates the branch before it finds
\* the path occupied
gitWorktreeAdd(wt, br, t) ==
  IF t \in br
    THEN [ok |-> FALSE, worktrees |-> wt, branches |-> br]
    ELSE IF t \in wt
      THEN [ok |-> FALSE, worktrees |-> wt, branches |-> br \cup {t}]
      ELSE [ok |-> TRUE, worktrees |-> wt \cup {t}, branches |-> br \cup {t}]

\* createWorktree(taskId, branchPrefix): a failure of git is rethrown
createWorktree(t) ==
  LET r == gitWorktreeAdd(worktrees, branches, t)
  IN  /\ worktrees' = r.worktrees
      /\ branches' = r.branches
      /\ lastCall' = [NoCall EXCEPT !.op = "createWorktree",
                                    !.taskId = t,
                                    !.threw = ~r.ok]

\* removeWorktree(taskId): git worktree remove "<path>" (no --force, the
\* branch is left alone); a failure of git is caught and warned about
removeWorktree(t) ==
  /\ \E gitOk \in (IF t \in worktrees THEN BOOLEAN ELSE {FALSE}) :
       /\ worktrees' = (IF gitOk THEN worktrees \ {t} ELSE worktrees)
       /\ lastCall' = [NoCall EXCEPT !.op = "removeWorktree",
                                     !.taskId = t,
                                     !.warned = ~gitOk]
  /\ UNCHANGED branches

copiedDirsMissingAborts(present, failing) ==
  {SyncDirs[i] :
     i \in {k \in 1..Len(SyncDirs) :
              /\ SyncDirs[k] \in present \ failing
              /\ \A j \in 1..(k - 1) : SyncDirs[j] \in present \ failing}}

\* the directories the three cp calls copy, in order: a missing source
\* (ENOENT) is skipped, any other failure is thrown to the outer catch and
\* the copies after it are not made
copiedDirs(present, failing) ==
  {SyncDirs[i] :
     i \in {k \in 1..Len(SyncDirs) :
              /\ SyncDirs[k] \in present \ failing
              /\ \A j \in 1..(k - 1) : SyncDirs[j] \notin present \cap failing}}

\* syncFromWorktree(taskId): `present` are the source directories that
\* exist in the worktree, `failing` those whose cp fails otherwise
syncFromWorktree(t) ==
  /\ \E present \in (IF t \in worktrees THEN SUBSET Dirs ELSE {{}}) :
       \E failing \in SUBSET present :
         lastCall' = [op |-> "syncFromWorktree",
                      taskId |-> t,
                      threw |-> FALSE,
                      warned |-> (failing # {}),
                      present |-> present,
                      failing |-> failing,
                      copied |-> copiedDirs(present, failing)]
  /\ UNCHANGED <<worktrees, branches>>

\* any sequence of WorktreeManager calls
CallCreateWorktree(t) ==
  /\ createWorktree(t)
  /\ UNCHANGED <<liveWorkers, wpc>>
  /\ UNCHANGED svars
  /\ UNCHANGED xvars
  /\ UNCHANGED cvars

CallRemoveWorktree(t) ==
  /\ removeWorktree(t)
  /\ UNCHANGED <<liveWorkers, wpc>>
  /\ UNCHANGED svars
  /\ UNCHANGED xvars
  /\ UNCHANGED cvars

CallSyncFromWorktree(t) ==
  /\ syncFromWorktree(t)
  /\ UNCHANGED <<liveWorkers, wpc>>
  /\ UNCHANGED svars
  /\ UNCHANGED xvars
  /\ UNCHANGED cvars

\* the records a Worker leaves in the state directory of its worktree
WorktreeStates(u) ==
  {s \in WorkerStates(u) :
     /\ s.gitStatus = GitClean
     /\ s.attemptNumber = 1
     /\ s.status \in {"NEEDS_RETRY", "VERIFIED_COMPLETE"}}

\* createWorktree(taskId): .claudefather is not under version control, the
\* new worktree has no state files
CreateWorktreeFiles(t) ==
  /\ createWorktree(t)
  /\ wtState' = (IF t \in worktrees' \ worktrees
                   THEN [wtState EXCEPT ![t] = NoStateDir] ELSE wtState)
  /\ UNCHANGED <<fnResult, runResult, pending, observed, cli, prompt, gitArg,
                 gitIssues>>
  /\ UNCHANGED <<liveWorkers, wpc>>
  /\ UNCHANGED svars
  /\ UNCHANGED cvars

\* the Worker running in the worktree of task t writes a state file there,
\* for its own task or under another task's id
WorkerWritesInWorktree(t, u) ==
  /\ t \in worktrees
  /\ \E s \in WorktreeStates(u) :
       wtState' = [wtState EXCEPT ![t][u] = s]
  /\ UNCHANGED <<fnResult, runResult, pending, observed, cli, prompt, gitArg,
                 gitIssues>>
  /\ UNCHANGED wvars
  /\ UNCHANGED svars
  /\ UNCHANGED cvars

\* syncFromWorktree(taskId) with the files it copies: cp of the state
\* directory, recursive and forced, replaces every record of the shared
\* store that has a file of the same name in the worktree
SyncFromWorktreeFiles(t) ==
  /\ syncFromWorktree(t)
  /\ ("state" \in lastCall'.present)
       <=> (\E u \in Tasks : wtState[t][u] # NoState)
  /\ store' = [u \in Tasks |->
                 IF "state" \in lastCall'.copied /\ wtState[t][u] # NoState
                   THEN wtState[t][u] ELSE store[u]]
  /\ UNCHANGED <<pc, idx, state, lastValidation, attemptNum, calls, wrote,
                 outcome, fresh>>
  /\ UNCHANGED <<liveWorkers, wpc>>
  /\ UNCHANGED xvars
  /\ UNCHANGED cvars

\* removeWorktree(taskId): the worktree's files go with it
RemoveWorktreeFiles(t) ==
  /\ removeWorktree(t)
  /\ wtState' = (IF t \in worktrees \ worktrees'
                   THEN [wtState EXCEPT ![t] = NoStateDir] ELSE wtState)
  /\ UNCHANGED <<fnResult, runResult, pending, observed, cli, prompt, gitArg,
                 gitIssues>>
  /\ UNCHANGED <<liveWorkers, wpc>>
  /\ UNCHANGED svars
  /\ UNCHANGED cvars

NextSync ==
  \E t \in Tasks :
    \/ CreateWorktreeFiles(t)
    \/ \E u \in Tasks : WorkerWritesInWorktree(t, u)
    \/ SyncFromWorktreeFiles(t)
    \/ RemoveWorktreeFiles(t)

SpecSync == Init /\ [][NextSync]_vars

\* outside the program: the task's branch is renamed or deleted (the Worker
\* runs git with bypassPermissions inside its worktree)
BranchRenamed(t) ==
  /\ t \in branches
  /\ branches' = branches \ {t}
  /\ lastCall' = [NoCall EXCEPT !.op = "external"]
  /\ UNCHANGED <<liveWorkers, worktrees, wpc>>
  /\ UNCHANGED svars
  /\ UNCHANGED xvars
  /\ UNCHANGED cvars

NextWT ==
  \E t \in Tasks :
    \/ CallCreateWorktree(t)
    \/ CallRemoveWorktree(t)
    \/ CallSyncFromWorktree(t)
    \/ BranchRenamed(t)

SpecWT == Init /\ [][NextWT]_vars

(***************************************************************************)
(* The parallel run: every task of the queue goes through                  *)
(* ConcurrencyManager.run; inside its slot it opens its worktree, runs the *)
(* Worker there, synchronizes the artifacts and closes the worktree        *)
(***************************************************************************)
\* open the execution context and start the Worker in it
OpenContext(c) ==
  /\ cpc[c] = "holding"
  /\ wpc[c] = "start"
  /\ createWorktree(TaskList[c])
  /\ IF lastCall'.threw
       THEN /\ wpc' = [wpc EXCEPT ![c] = "failed"]
            /\ UNCHANGED liveWorkers
       ELSE /\ wpc' = [wpc EXCEPT ![c] = "worker"]
            /\ liveWorkers' = liveWorkers \cup {TaskList[c]}
  /\ UNCHANGED svars
  /\ UNCHANGED xvars
  /\ UNCHANGED cvars

\* ClaudeRunner.run settles because the query ended or threw
WorkerExits(c) ==
  /\ wpc[c] = "worker"
  /\ wpc' = [wpc EXCEPT ![c] = "sync"]
  /\ liveWorkers' = liveWorkers \ {TaskList[c]}
  /\ UNCHANGED <<worktrees, branches, lastCall>>
  /\ UNCHANGED svars
  /\ UNCHANGED xvars
  /\ UNCHANGED cvars

\* ClaudeRunner.run settles because the timeout fired: the Worker runs on
WorkerTimesOut(c) ==
  /\ wpc[c] = "worker"
  /\ wpc' = [wpc EXCEPT ![c] = "sync"]
  /\ UNCHANGED <<liveWorkers, worktrees, branches, lastCall>>
  /\ UNCHANGED svars
  /\ UNCHANGED xvars
  /\ UNCHANGED cvars

\* a Worker that outlived its run() call exits
OrphanExits(c) ==
  /\ wpc[c] # "worker"
  /\ TaskList[c] \in liveWorkers
  /\ liveWorkers' = liveWorkers \ {TaskList[c]}
  /\ UNCHANGED <<worktrees, branches, wpc, lastCall>>
  /\ UNCHANGED svars
  /\ UNCHANGED xvars
  /\ UNCHANGED cvars

\* whatever the outcome: synchronize the artifacts from the context
SyncContext(c) ==
  /\ wpc[c] = "sync"
  /\ syncFromWorktree(TaskList[c])
  /\ wpc' = [wpc EXCEPT ![c] = "close"]
  /\ UNCHANGED liveWorkers
  /\ UNCHANGED svars
  /\ UNCHANGED xvars
  /\ UNCHANGED cvars

\* then close the context
CloseContext(c) ==
  /\ wpc[c] = "close"
  /\ removeWorktree(TaskList[c])
  /\ wpc' = [wpc EXCEPT ![c] = "done"]
  /\ UNCHANGED liveWorkers
  /\ UNCHANGED svars
  /\ UNCHANGED xvars
  /\ UNCHANGED cvars

\* ConcurrencyManager.run: finally { release() }, the function having
\* returned or thrown
ReleaseSlot(c) ==
  /\ wpc[c] \in {"done", "failed"}
  /\ ReleaseBody(c)
  /\ wpc' = [wpc EXCEPT ![c] = "start"]
  /\ UNCHANGED <<liveWorkers, worktrees, branches, lastCall>>
  /\ UNCHANGED svars
  /\ UNCHANGED xvars

NextPar ==
  \E c \in ParCallers :
    \/ Acquire(c)
    \/ Resume(c)
    \/ OpenContext(c)
    \/ WorkerExits(c)
    \/ WorkerTimesOut(c)
    \/ OrphanExits(c)
    \/ SyncContext(c)
    \/ CloseContext(c)
    \/ ReleaseSlot(c)

SpecPar == InitCM /\ [][NextPar]_vars

(***************************************************************************)
(* The end-to-end scenario: three never-attempted tasks, concurrency 2, a  *)
(* Worker that answers VERIFIED_COMPLETE at once for A and C and           *)
(* NEEDS_RETRY, then VERIFIED_COMPLETE, for B. Every attempt takes a slot, *)
(* opens a fresh context, runs the Worker in it, synchronizes and closes   *)
(* the context, and gives the slot back                                    *)
(***************************************************************************)
E2ETaskList == <<"A", "B", "C">>
E2ETasks == {E2ETaskList[i] : i \in 1..Len(E2ETaskList)}
E2ECallers == 1..Len(E2ETaskList)
E2EConcurrency == 2

\* what the Worker of the scenario writes for task t, prev being the stored
\* state it finds
E2EWorkerState(t, prev) ==
  [taskId |-> t,
   status |-> (IF t = "B" /\ prev = NoState
                 THEN "NEEDS_RETRY" ELSE "VERIFIED_COMPLETE"),
   attemptNumber |-> NextAttemptNum(prev),
   gitStatus |-> GitClean,
   blockerContext |-> "worker",
   startedAt |-> "t0",
   filesChanged |-> <<"f">>,
   summary |-> "done",
   feedback |-> NoFeedback]

InitE2E ==
  /\ store = [t \in E2ETasks |-> NoState]
  /\ pc = "idle"
  /\ idx = 0
  /\ state = NoState
  /\ lastValidation = NoValidation
  /\ attemptNum = 0
  /\ calls = 0
  /\ wrote = FALSE
  /\ outcome = "none"
  /\ fresh = FALSE
  /\ InitConcurrency(E2EConcurrency)
  /\ liveWorkers = {}
  /\ worktrees = {}
  /\ branches = {}
  /\ wpc = [c \in E2ECallers |-> "start"]
  /\ lastCall = NoCall
  /\ InitExtras
  /\ InitValidator
  /\ InitWorktreeFiles

\* processTask up to the attempt: a task that is complete or blocked is left
\* alone, the ceiling is tested, otherwise a slot is asked for
E2EStartAttempt(c) ==
  /\ wpc[c] = "start"
  /\ cpc[c] = "idle"
  /\ LET t == E2ETaskList[c]
         s == loadState(store, t)
     IN  IF ~LoopCondition(s)
           THEN /\ wpc' = [wpc EXCEPT ![c] = "finished"]
                /\ UNCHANGED <<store, cvars>>
           ELSE IF NextAttemptNum(s) > maxAttempts
             THEN /\ store' = saveState(store,
                                        CeilingState(s, NextAttemptNum(s)))
                  /\ wpc' = [wpc EXCEPT ![c] = "finished"]
                  /\ UNCHANGED cvars
             ELSE /\ AcquireBody(c)
                  /\ wpc' = [wpc EXCEPT ![c] = "slot"]
                  /\ UNCHANGED store
  /\ UNCHANGED <<pc, idx, state, lastValidation, attemptNum, calls, wrote,
                 outcome, fresh>>
  /\ UNCHANGED <<liveWorkers, worktrees, branches, lastCall>>
  /\ UNCHANGED xvars

\* the attempt has its slot: open the context and invoke the Worker in it
E2EOpenContext(c) ==
  /\ cpc[c] = "holding"
  /\ wpc[c] = "slot"
  /\ createWorktree(E2ETaskList[c])
  /\ IF lastCall'.threw
       THEN /\ wpc' = [wpc EXCEPT ![c] = "failed"]
            /\ UNCHANGED <<liveWorkers, calls>>
       ELSE /\ wpc' = [wpc EXCEPT ![c] = "worker"]
            /\ liveWorkers' = liveWorkers \cup {E2ETaskList[c]}
            /\ calls' = calls + 1
  /\ UNCHANGED <<store, pc, idx, state, lastValidation, attemptNum, wrote,
                 outcome, fresh>>
  /\ UNCHANGED cvars
  /\ UNCHANGED xvars

\* the Worker writes its state and exits, ClaudeRunner.run returns the
\* state, and processTask validates it: an invalid state is saved
\* downgraded, a VERIFIED_COMPLETE or blocker state is saved as it is
E2EWorkerReturns(c) ==
  /\ wpc[c] = "worker"
  /\ LET t == E2ETaskList[c]
         s == E2EWorkerState(t, loadState(store, t))
         v == validate(s.gitStatus)
     IN  store' = saveState(store, IF v.valid THEN s ELSE Downgrade(s, v))
  /\ liveWorkers' = liveWorkers \ {E2ETaskList[c]}
  /\ wpc' = [wpc EXCEPT ![c] = "sync"]
  /\ UNCHANGED <<pc, idx, state, lastValidation, attemptNum, calls, wrote,
                 outcome, fresh>>
  /\ UNCHANGED <<worktrees, branches, lastCall>>
  /\ UNCHANGED cvars
  /\ UNCHANGED xvars

\* whatever the outcome: synchronize the artifacts from the context
E2ESyncContext(c) ==
  /\ wpc[c] = "sync"
  /\ syncFromWorktree(E2ETaskList[c])
  /\ wpc' = [wpc EXCEPT ![c] = "close"]
  /\ UNCHANGED liveWorkers
  /\ UNCHANGED svars
  /\ UNCHANGED cvars
  /\ UNCHANGED xvars

\* then close the context
E2ECloseContext(c) ==
  /\ wpc[c] = "close"
  /\ removeWorktree(E2ETaskList[c])
  /\ wpc' = [wpc EXCEPT ![c] = "done"]
  /\ UNCHANGED liveWorkers
  /\ UNCHANGED svars
  /\ UNCHANGED cvars
  /\ UNCHANGED xvars

\* the slot is given back; a task whose status is not final goes on to its
\* next attempt, a task whose context could not be opened is given up
E2EReleaseSlot(c) ==
  /\ wpc[c] \in {"done", "failed"}
  /\ ReleaseBody(c)
  /\ wpc' = [wpc EXCEPT ![c] = IF wpc[c] = "failed" THEN "finished"
                                                   ELSE "start"]
  /\ UNCHANGED <<liveWorkers, worktrees, branches, lastCall>>
  /\ UNCHANGED svars
  /\ UNCHANGED xvars

NextE2E ==
  \E c \in E2ECallers :
    \/ E2EStartAttempt(c)
    \/ Resume(c)
    \/ E2EOpenContext(c)
    \/ E2EWorkerReturns(c)
    \/ E2ESyncContext(c)
    \/ E2ECloseContext(c)
    \/ E2EReleaseSlot(c)

SpecE2E == InitE2E /\ [][NextE2E]_vars

\* one run after another, the process never killed: every step of run() and
\* processTask is taken once it can be (the continuation of an await runs),
\* and every ClaudeRunner.run call settles (the query ends or the timeout
\* fires)
NextRun ==
  \/ StartRun
  \/ NextTask
  \/ ProcessTaskStart
  \/ LoopTop
  \/ WorkerWrite
  \/ RunSettles
  \/ ValidateStep
  \/ CatchStep

SpecFair ==
  /\ Init
  /\ [][NextRun]_vars
  /\ WF_vars(StartRun)
  /\ WF_vars(NextTask)
  /\ WF_vars(ProcessTaskStart)
  /\ WF_vars(LoopTop)
  /\ WF_vars(RunSettles)
  /\ WF_vars(ValidateStep)
  /\ WF_vars(CatchStep)

Next ==
  \/ StartRun
  \/ NextTask
  \/ ProcessTaskStart
  \/ LoopTop
  \/ WorkerWrite
  \/ RunSettles
  \/ ValidateStep
  \/ CatchStep
  \/ Crash
  \/ Reset

Spec == Init /\ [][Next]_vars

(***************************************************************************)
(* Properties                                                              *)
(***************************************************************************)
Holders == {c \in Callers : cpc[c] = "holding"}

\* C1: under any interleaving of acquire() calls, resumptions and release
\* calls, the number of holders never exceeds maxConcurrency, and
\* maxConcurrency is the constructor argument clamped to at least 1.
C1_HoldersBounded ==
  /\ maxConcurrency >= 1
  /\ Cardinality(Holders) <= maxConcurrency

\* every slot is taken while a woken waiter has not resumed yet
C1_Witness ==
  /\ Cardinality(Holders) = maxConcurrency
  /\ \E c \in Callers : cpc[c] = "woken"

\* C2: processTask makes at most 3 Worker invocations (ClaudeRunner.run
\* calls), whatever the Worker writes.
C2_AtMostThreeInvocations == calls <= maxAttempts

\* C3: when processTask stops after having started from no stored state, the
\* persisted attemptNumber is at most the ceiling and equals the number of
\* Worker invocations made.
C3_FinalAttemptNumber ==
  (pc = "ret" /\ fresh) =>
    /\ IsState(store[task])
    /\ store[task].attemptNumber <= maxAttempts
    /\ store[task].attemptNumber = calls

\* C4: processTask on a task whose stored state is VERIFIED_COMPLETE returns
\* without a Worker invocation and leaves the store unchanged, every time.
C4_Idempotent ==
  [][(/\ pc = "task"
      /\ IsState(store[task])
      /\ store[task].status = "VERIFIED_COMPLETE"
      /\ pc' # "idle")
     => (/\ store' = store
         /\ pc' = "ret"
         /\ outcome' = "already_complete"
         /\ calls' = 0)]_vars

\* a second run has skipped a task that an earlier run completed
C4_Witness ==
  /\ pc = "ret"
  /\ outcome = "already_complete"
  /\ IsState(store[task])
  /\ store[task].status = "VERIFIED_COMPLETE"
  /\ calls = 0

C6_DoneOnlyIfValidated ==
  (pc = "ret" /\ outcome \in {"verified", "already_complete"}) =>
    /\ IsState(store[task])
    /\ store[task].status = "VERIFIED_COMPLETE"
    /\ Len(validateGitStatus(store[task].gitStatus)) = 0

\* C7: when the state returned by the Worker run fails validation, the state
\* is persisted with status NEEDS_RETRY and feedback.issues equal to the
\* validator's messages in order, the Worker's other fields kept, and the
\* loop goes on to the next attempt.
C7_InvalidDowngraded ==
  [][(/\ pc = "validate"
      /\ Len(validateGitStatus(state.gitStatus)) > 0
      /\ pc' # "idle")
     => (/\ pc' = "loop"
         /\ store'[state.taskId] = state'
         /\ state'.status = "NEEDS_RETRY"
         /\ state'.feedback # NoFeedback
         /\ state'.feedback.issues =
              [i \in 1..Len(validateGitStatus(state.gitStatus)) |->
                 validateGitStatus(state.gitStatus)[i].message]
         /\ state'.attemptNumber = state.attemptNumber
         /\ state'.gitStatus = state.gitStatus)]_vars

\* a state the Worker did not write as NEEDS_RETRY was downgraded, with the
\* three messages of GitBad in the validator's order
C7_Witness ==
  /\ pc = "loop"
  /\ state # NoState
  /\ store[task] = state
  /\ state.status = "NEEDS_RETRY"
  /\ state.feedback # NoFeedback
  /\ state.feedback.issues =
       << <<"Commit SHA does not look like a valid git commit hash",
            <<"x", "y", "z">> >>,
          <<"Branch name contains invalid characters", <<"a", " ", "b">> >>,
          <<"Uncommitted changes reported but task claims to be complete">> >>

\* C8: a blocker status returned by the Worker is persisted as it is and
\* processTask stops.
C8_BlockerTrusted ==
  [][(/\ pc = "validate"
      /\ state.status \in BlockerStatuses
      /\ pc' # "idle")
     => (/\ pc' = "ret"
         /\ IsState(store'[task])
         /\ store'[task].status = state.status)]_vars

C10_MissingOutputFails ==
  [][(/\ pc = "worker"
      /\ ~wrote
      /\ pc' # "worker"
      /\ pc' # "idle")
     => pc' = "catch"]_vars

\* C11: once ClaudeRunner.run has reported a timeout and processTask has
\* persisted the state of the failed attempt, the Worker of that attempt
\* takes no further step: the persisted record is not overwritten by it.
C11_NoWriteAfterTimeout ==
  [][\A t \in Tasks :
       (/\ pc = "ret"
        /\ outcome = "error"
        /\ task = t
        /\ t \in liveWorkers)
       => store'[t] = store[t]]_vars

\* C12: in every run, run() calls processTask for every task of the queue:
\* once it has reached the first task it reaches the last one.
C12_EveryTaskReached == (idx = 1) ~> (idx = Len(TaskList))

\* C13: resetTask on a task whose stored state is HUMAN_REVIEW_REQUIRED
\* leaves the task absent: loadState returns null without raising.
C13_ResetGivesAbsent ==
  [][\A t \in Tasks :
       (/\ pc = "idle"
        /\ IsState(store[t])
        /\ store[t].status = "HUMAN_REVIEW_REQUIRED"
        /\ store'[t] # store[t])
       => loadState(store', t) = NoState]_vars

\* C14: loadState returns null exactly when no record is stored; a malformed
\* record makes loadState raise, makes getStatus raise instead of listing
\* the task as pending, and is never taken by processTask or
\* ClaudeRunner.run for an absent or a usable state.
C14_MalformedRaises ==
  /\ \A t \in Tasks :
       /\ (loadState(store, t) = NoState) <=> (store[t] = NoState)
       /\ (store[t] = Malformed) => (loadState(store, t) = LoadError)
  /\ (\E t \in Tasks : store[t] = Malformed) => (getStatus(store) = LoadError)
  /\ (\A t \in Tasks : store[t] # Malformed) =>
       (\A t \in Tasks :
          (getStatus(store)[t] = "pending") <=> (store[t] = NoState))
  /\ (pc = "loop" /\ calls = 0 /\ fresh) => (store[task] = NoState)
  /\ (pc = "validate") => (IsState(state) /\ store[task] = state)
  /\ (outcome = "threw") => (pc \in {"idle", "task"} /\ calls = 0)

\* processTask has raised on a malformed record and run() was abandoned
C14_Witness ==
  /\ pc = "idle"
  /\ outcome = "threw"
  /\ \E t \in Tasks : store[t] = Malformed

\* C15: the attemptNumber persisted after an attempt is greater than the
\* one persisted before it, whatever the Worker writes.
C15_AttemptNumberIncreases ==
  [][(/\ pc \in {"validate", "catch"}
      /\ pc' # "idle")
     => (/\ IsState(store'[task])
         /\ store'[task].attemptNumber > attemptNum - 1)]_vars

\* the tasks whose attempt holds an execution context
InUse == {c \in ParCallers : wpc[c] \in {"worker", "sync", "close", "done"}}

C17_FailedCreateChangesNothing ==
  [][\A t \in Tasks :
       (/\ t \in worktrees \cup branches
        /\ lastCall'.op = "createWorktree"
        /\ lastCall'.taskId = t
        /\ lastCall' # lastCall)
       => (/\ lastCall'.threw
           /\ worktrees' = worktrees
           /\ branches' = branches)]_vars

\* C18: a createWorktree that follows a successful removeWorktree of the
\* same task succeeds.
C18_CreateAfterRemoveSucceeds ==
  [][\A t \in Tasks :
       (/\ lastCall.op = "removeWorktree"
        /\ lastCall.taskId = t
        /\ ~lastCall.warned
        /\ lastCall'.op = "createWorktree"
        /\ lastCall'.taskId = t)
       => ~lastCall'.threw]_vars

\* C19: the artifacts of an attempt are synchronized once, after the Worker
\* has exited, and the context is closed next.
C19_SyncAfterWorkerExit ==
  [][\A c \in ParCallers :
       /\ (wpc[c] = "sync" /\ wpc'[c] # "sync")
            => (/\ TaskList[c] \notin liveWorkers
                /\ lastCall'.op = "syncFromWorktree"
                /\ wpc'[c] = "close")
       /\ (wpc[c] = "close" /\ wpc'[c] # "close")
            => (lastCall'.op = "removeWorktree" /\ wpc'[c] = "done")]_vars

\* C20: removeWorktree and syncFromWorktree return normally whatever git or
\* cp does, with a warning when one of them failed; a sync in which no copy
\* fails copies every source directory that exists, missing ones skipped.
C20_NeverPropagates ==
  /\ lastCall.op \in {"removeWorktree", "syncFromWorktree"} =>
       ~lastCall.threw
  /\ (lastCall.op = "removeWorktree" /\ ~lastCall.warned) =>
       lastCall.taskId \notin worktrees
  /\ lastCall.op = "syncFromWorktree" =>
       /\ lastCall.warned <=> (lastCall.failing # {})
       /\ lastCall.copied \subseteq lastCall.present \ lastCall.failing
       /\ (lastCall.failing = {}) => (lastCall.copied = lastCall.present)

\* a sync found no tasks directory and copied the state and logs directories
C20_Witness ==
  /\ lastCall.op = "syncFromWorktree"
  /\ lastCall.present = {"state", "logs"}
  /\ lastCall.failing = {}
  /\ lastCall.copied = {"state", "logs"}
  /\ ~lastCall.threw
  /\ ~lastCall.warned

\* C21: ConcurrencyManager.run(fn) gives its slot back exactly once, when fn
\* resolved and when fn rejected: activeCount always counts the callers
\* inside run's try block, a caller leaves that block only after fn settled,
\* the step that leaves it lowers activeCount by one, and run settles the
\* way fn did
C21_RunReleasesOnce ==
  /\ [](activeCount = Cardinality(Holders))
  /\ [][\A c \in Callers :
          (cpc[c] = "holding" /\ cpc'[c] # "holding")
            => /\ fnResult[c] # "none"
               /\ activeCount' = activeCount - 1
               /\ runResult'[c] = fnResult[c]]_vars

\* fn rejected, run passed the rejection on, and the slot is free again
C21_Witness ==
  \E c \in Callers :
    /\ runResult[c] = "rejected"
    /\ cpc[c] = "idle"
    /\ activeCount = 0

\* C22: callers blocked in acquire() obtain their slots in the order in which
\* they started waiting: no caller takes a slot directly while a woken waiter
\* has yet to resume, and a woken waiter that resumes obtains its slot (it is
\* not sent to the back of the queue, behind callers that queued after it)
C22_NoOvertaking ==
  [][\A c \in Callers :
       /\ (cpc[c] = "idle" /\ cpc'[c] = "holding")
            => \A w \in Callers : cpc[w] # "woken"
       /\ (cpc[c] = "woken" /\ cpc'[c] # "woken")
            => cpc'[c] = "holding"]_vars

\* C23: while task T is processed, the supervisor's saveState calls write
\* only the record of T: every step of processTask leaves the stored record
\* of every other task as it was, whatever the Worker wrote
C23_OnlyOwnRecordWritten ==
  [][(pc # "idle")
       => \A t \in Tasks \ {task} : store'[t] = store[t]]_vars

\* C24: a loadState that runs while another process saves the same task's
\* state returns the complete previous record (or null when there was none)
\* or the complete new record: it never meets an empty or partly written
\* file, that is, it never raises
C24_LoadSeesCompleteRecord == observed # LoadError

\* a --parallel value that is a positive decimal number
ValidConcurrency(arg) ==
  /\ Len(arg) > 0
  /\ \A i \in 1..Len(arg) : IsDigit(arg[i])
  /\ DigitsValue(arg) >= 1

\* C25: `start --parallel N` with an invalid value (zero, negative or
\* non-numeric) aborts with an error; the supervisor is never run
C25_InvalidConcurrencyAborts ==
  (cli.outcome # "none" /\ ~ValidConcurrency(cli.arg))
    => cli.outcome = "aborted"

\* the ways processTask returns after it met a blocker status: stored
\* already, reported by the Worker, or made up at the ceiling
BlockerOutcomes == {"blocked", "blocker_reported", "ceiling"}

Bucket(gs, b) == {t \in Tasks : gs[t] = b}

\* C27: when getStatus returns, every loaded task is in exactly one of the
\* four buckets: pending iff no state is stored, completed iff the stored
\* status is VERIFIED_COMPLETE, blocked iff it is a blocker status, in
\* progress iff it is NEEDS_RETRY or TASK_COMPLETE; the sizes add up to the
\* number of tasks
C27_StatusBuckets ==
  LET gs == getStatus(store)
  IN  (gs # LoadError)
        => /\ \A t \in Tasks :
                /\ (t \in Bucket(gs, "pending")) <=> (store[t] = NoState)
                /\ (t \in Bucket(gs, "completed"))
                     <=> (IsState(store[t])
                            /\ store[t].status = "VERIFIED_COMPLETE")
                /\ (t \in Bucket(gs, "blocked"))
                     <=> (IsState(store[t])
                            /\ store[t].status \in BlockerStatuses)
                /\ (t \in Bucket(gs, "inProgress"))
                     <=> (IsState(store[t])
                            /\ store[t].status
                                 \in {"NEEDS_RETRY", "TASK_COMPLETE"})
           /\ Cardinality(Bucket(gs, "pending"))
                + Cardinality(Bucket(gs, "completed"))
                + Cardinality(Bucket(gs, "blocked"))
                + Cardinality(Bucket(gs, "inProgress")) = Len(TaskList)

\* one task is blocked and the other one in progress
C27_Witness ==
  /\ getStatus(store) # LoadError
  /\ Bucket(getStatus(store), "blocked") # {}
  /\ Bucket(getStatus(store), "inProgress") # {}

C30_CeilingCarriesLastState ==
  [][(/\ pc = "loop"
      /\ LoopCondition(state)
      /\ NextAttemptNum(state) > maxAttempts)
     => (/\ pc' = "ret"
         /\ calls' = calls
         /\ store'[task].status = "HUMAN_REVIEW_REQUIRED"
         /\ store'[task].taskId = state.taskId
         /\ store'[task].startedAt = state.startedAt
         /\ store'[task].filesChanged = state.filesChanged
         /\ store'[task].summary = state.summary
         /\ store'[task].gitStatus = state.gitStatus)]_vars

\* C28: in the end-to-end scenario, once the three tasks are through, all
\* three are stored VERIFIED_COMPLETE and the Worker was invoked exactly four
\* times
C28_EndToEnd ==
  (\A c \in E2ECallers : wpc[c] = "finished")
    => /\ \A t \in E2ETasks :
            /\ IsState(store[t])
            /\ store[t].status = "VERIFIED_COMPLETE"
       /\ calls = 4

\* C31: the prompt of an attempt made while a previous state of the task
\* exists carries the previous-attempt section with at least one itemized
\* issue; the prompt of the first attempt of a never-attempted task has no
\* previous-attempt section
C31_RetryPromptListsIssues ==
  (prompt # NoPrompt)
    => /\ (state = NoState) <=> (prompt.retry = <<>>)
       /\ \A i \in 1..Len(prompt.retry) :
            Len(prompt.retry[i].issuesFound)
              + Len(prompt.retry[i].validationIssues) > 0

\* C32: no Worker invocation for a task starts while an earlier invocation
\* for the same task is still in progress
C32_NoConcurrentInvocations ==
  [][(pc = "loop" /\ pc' = "worker") => task \notin liveWorkers]_vars

\* C33: a call of a release function wakes the waiter at the head of the
\* queue and nobody else, leaves the other waiters queued in their order, and
\* wakes nobody when the queue is empty
C33_ReleaseWakesHead ==
  [][(activeCount' = activeCount - 1)
       => IF Len(queue) > 0
            THEN /\ queue' = Tail(queue)
                 /\ cpc'[Head(queue)] = "woken"
                 /\ \A c \in Callers \ {Head(queue)} :
                      (cpc'[c] = "woken") => (cpc[c] = "woken")
                 /\ \A i \in 1..Len(queue') : cpc'[queue'[i]] = "waiting"
            ELSE /\ queue' = queue
                 /\ \A c \in Callers :
                      (cpc'[c] = "woken") => (cpc[c] = "woken")]_vars

\* a waiter has been woken by a release while others are still queued
C33_Witness ==
  /\ Len(queue) > 0
  /\ \E c \in Callers : cpc[c] = "woken"

\* C34: no lost wake-up: whenever a slot is free and a waiter is queued, some
\* waiter has been woken and has yet to resume; and when every caller calls
\* acquire() at most once and releases after acquiring, every acquire() call
\* in progress eventually returns
C34_NoLostWakeup ==
  /\ []((activeCount < maxConcurrency /\ Len(queue) > 0)
          => \E c \in Callers : cpc[c] = "woken")
  /\ \A c \in Callers :
       (cpc[c] \in {"waiting", "woken"}) ~> (cpc[c] = "holding")

\* a slot is free while a waiter is still queued behind a woken one
C34_Witness ==
  /\ activeCount < maxConcurrency
  /\ Len(queue) > 0
  /\ \E c \in Callers : cpc[c] = "woken"

\* C35: activeCount stays between 0 and maxConcurrency whatever the sequence
\* of acquire() and release-function calls, repeated calls of one release
\* function included
C35_ActiveCountInRange ==
  /\ activeCount >= 0
  /\ activeCount <= maxConcurrency

\* C36: an exception raised during an attempt (Worker run failed or timed
\* out, state record missing or malformed afterwards) ends processTask with a
\* persisted HUMAN_REVIEW_REQUIRED record for task.id whose attemptNumber is
\* the attemptNumber stored before the attempt plus 1 (1 if none was stored),
\* and without a further Worker invocation for the task
C36_ExceptionEscalates ==
  /\ []((pc = "worker" /\ ~wrote)
          => attemptNum = (IF IsState(store[task])
                             THEN store[task].attemptNumber ELSE 0) + 1)
  /\ [][(pc \in {"worker", "catch"} /\ pc' # "idle")
          => attemptNum' = attemptNum]_vars
  /\ [][(pc = "catch" /\ pc' # "idle")
          => /\ IsState(store'[task])
             /\ store'[task].taskId = task
             /\ store'[task].status = "HUMAN_REVIEW_REQUIRED"
             /\ store'[task].attemptNumber = attemptNum
             /\ pc' = "ret"
             /\ outcome' = "error"
             /\ calls' = calls]_vars

\* the second attempt of a task raised an exception
C36_Witness ==
  /\ pc = "ret"
  /\ outcome = "error"
  /\ calls = 2
  /\ attemptNum = 2
  /\ IsState(store[task])
  /\ store[task].status = "HUMAN_REVIEW_REQUIRED"
  /\ store[task].attemptNumber = 2

\* C37: whenever processTask(task) has returned, the record stored under
\* task.id has a terminal status: VERIFIED_COMPLETE or a blocker status
C37_ReturnLeavesTerminal ==
  (pc = "ret")
    => /\ IsState(store[task])
       /\ \/ store[task].status = "VERIFIED_COMPLETE"
          \/ isBlocker(store[task].status)

\* C38: validateGitStatus returns no issue exactly when lastCommitSha is 7 to
\* 40 lower-case hexadecimal characters, branch is a non-empty string of
\* letters, digits, '_', '-', '/' and '.', and uncommittedChanges is false
C38_NoIssueIffWellFormed ==
  Validated(gitIssues)
    => ((Len(gitIssues) = 0)
          <=> /\ Len(gitArg.lastCommitSha) \in 7..40
              /\ \A i \in 1..Len(gitArg.lastCommitSha) :
                   gitArg.lastCommitSha[i] \in HexChars
              /\ Len(gitArg.branch) > 0
              /\ \A i \in 1..Len(gitArg.branch) :
                   gitArg.branch[i] \in BranchChars
              /\ ~gitArg.uncommittedChanges)

\* a 40-character lower-case commit id on a well-formed branch validated
C38_Witness ==
  /\ Len(gitIssues) = 0
  /\ Len(gitArg.lastCommitSha) = 40
  /\ Len(gitArg.branch) = 2

\* C39: syncFromWorktree(taskId) changes no state record of the shared store
\* but that of task taskId, also when the worktree holds records of others
C39_SyncTouchesOwnRecordOnly ==
  [][(lastCall'.op = "syncFromWorktree")
       => \A u \in Tasks \ {lastCall'.taskId} : store'[u] = store[u]]_vars

====
